---------------------------- MODULE Spec2Model ----------------------------
(***************************************************************************)
(* Model of dwarf_analysis.py: the function descriptor extraction of a     *)
(* DWARF/ELF binary (attribute decoders, path resolution, symbol lookup,   *)
(* descriptor builder, compilation unit walk).                             *)
(*                                                                         *)
(* Python values are records tagged with their type, so that None,         *)
(* integers, strings and paths can meet in one comparison or truth test,   *)
(* as they do in the source.  A string is the sequence of its chunks, a    *)
(* path the sequence of its parts, a raised exception a value of type      *)
(* "raise".                                                                *)
(***************************************************************************)
EXTENDS Integers, Sequences, FiniteSets, TLC

(***************************************************************************)
(* Bounds of the model: the lengths of the symbol table, of a path, of the *)
(* file and directory tables, the units and DIEs of a run.  RecursionLimit *)
(* stands for the interpreter's recursion limit (1000 frames by default),  *)
(* scaled down; it stays above the longest path, as it does in practice.   *)
(***************************************************************************)
MaxSyms == 3
MaxPathLen == 3
MaxFiles == 2
MaxDirs == 2
MaxCUs == 2
MaxDIEs == 3
RecursionLimit == 8

(***************************************************************************)
(* Python values.                                                          *)
(***************************************************************************)
PyNone == [t |-> "None"]
PyInt(n) == [t |-> "int", int |-> n]
PyStr(s) == [t |-> "str", str |-> s]
PyPath(parts) == [t |-> "path", parts |-> parts]
PyRaise(e) == [t |-> "raise", exc |-> e]

\* bool(x): None, 0 and "" are false; a PurePath defines no __bool__ or
\* __len__ and is always true.
PyTruthy(x) ==
    CASE x.t = "None" -> FALSE
      [] x.t = "int" -> x.int # 0
      [] x.t = "str" -> x.str # <<>>
      [] OTHER -> TRUE

\* x == y on Python values of possibly different types
PyEq(x, y) == x.t = y.t /\ x = y

IsRaise(x) == x.t = "raise"

\* seq[i] with Python's indexing: 0-based, a negative index counts from the
\* end, anything else raises IndexError.
PyIndex(seq, i) ==
    IF 0 <= i /\ i < Len(seq) THEN [t |-> "item", item |-> seq[i + 1]]
    ELSE IF i < 0 /\ -i <= Len(seq) THEN [t |-> "item", item |-> seq[Len(seq) + i + 1]]
    ELSE PyRaise("IndexError")

\* bytes.decode('utf-8', errors='ignore'): the chunks that are not valid
\* UTF-8 are dropped.
InvalidByte == "\\xff"
IsValidChunk(c) == c # InvalidByte
decode(bytes) == SelectSeq(bytes, IsValidChunk)

\* PurePath(str).parts: the "/"-separated components, without the empty
\* ones and the "." ones; a leading "/" is the root part.
IsPathPart(c) == c # "" /\ c # "."
PurePath(components) == SelectSeq(components, IsPathPart)

\* PurePath.__truediv__: an absolute right operand replaces the left one.
PathJoin(left, right) ==
    IF right # <<>> /\ right[1] = "/" THEN right ELSE left \o right

\* All sequences over S of length at most n.
SeqUpTo(S, n) == UNION {[1..k -> S] : k \in 0..n}

(***************************************************************************)
(* clean_relative_path                                                     *)
(***************************************************************************)
RECURSIVE clean_relative_path_rec(_, _)
clean_relative_path_rec(parts, depth) ==
    IF depth > RecursionLimit THEN PyRaise("RecursionError")
    ELSE IF parts # <<>> /\ parts[1] # ".." THEN PyPath(parts)
    ELSE clean_relative_path_rec(SubSeq(parts, 2, Len(parts)), depth + 1)

clean_relative_path(path) == clean_relative_path_rec(path.parts, 1)

(***************************************************************************)
(* get_function_symtab_index                                               *)
(***************************************************************************)
\* the type test letting data objects through
is_func_symbol_or_object(sym) == sym.type \in {"STT_FUNC", "STT_OBJECT"}

\* the test of line 158
is_func_symbol(sym) == sym.type = "STT_FUNC"

\* the test of line 162
symbol_matches(sym, function, address) ==
    PyEq(PyStr(sym.name), function) /\ PyEq(PyInt(sym.st_value), address)

\* the loop of lines 153..171, from index i with the current `found`
RECURSIVE symtab_scan(_, _, _, _, _)
symtab_scan(tab, function, address, i, found) ==
    IF i >= Len(tab) THEN found
    ELSE LET sym == tab[i + 1] IN
         IF ~is_func_symbol(sym) THEN symtab_scan(tab, function, address, i + 1, found)
         ELSE IF symbol_matches(sym, function, address)
              THEN IF PyTruthy(found) THEN PyRaise("AssertionError")
                   ELSE symtab_scan(tab, function, address, i + 1, PyInt(i))
              ELSE symtab_scan(tab, function, address, i + 1, found)

get_function_symtab_index(tab, function, address) ==
    symtab_scan(tab, function, address, 0, PyNone)


(***************************************************************************)
(* Attribute decoders (require_attr and the functions it wraps).  A DIE is *)
(* [tag, attributes]; attributes maps each attribute name to PyNone or to  *)
(* an AttributeValue, [t |-> "attr", value |-> its value].                 *)
(***************************************************************************)
AttributeValue(x) == [t |-> "attr", value |-> x]

\* die.attributes.get(attr)
attributes_get(die, attr) == die.attributes[attr]

desc_name(die) ==
    LET attr_value == attributes_get(die, "DW_AT_name") IN
    IF PyTruthy(attr_value) THEN PyStr(decode(attr_value.value)) ELSE PyNone

\* the assertions without their lower bound
index_below_len(i, n) == i < n

\* the two assertions of desc_file, lines 76 and 81
index_in_bounds(i, n) == 0 <= i /\ i < n

\* the body of desc_file for a present DW_AT_decl_file of value `value`
resolve_file(value, lineprogram) ==
    LET offset == IF lineprogram.version >= 5 THEN 0 ELSE -1
        file_index == offset + value
        entries == lineprogram.file_entry
        dirs == lineprogram.include_directory
    IN  IF ~index_in_bounds(file_index, Len(entries)) THEN PyRaise("AssertionError")
        ELSE LET got == PyIndex(entries, file_index) IN
             IF IsRaise(got) THEN got
             ELSE LET file_entry == got.item
                      file_name == PurePath(decode(file_entry.name))
                      dir_index == offset + file_entry.dir_index
                  IN  IF ~index_in_bounds(dir_index, Len(dirs))
                      THEN PyRaise("AssertionError")
                      ELSE LET enc == PyIndex(dirs, dir_index) IN
                           IF IsRaise(enc) THEN enc
                           ELSE PyPath(PathJoin(PurePath(decode(enc.item)), file_name))

desc_file(die, lineprogram) ==
    LET attr_value == attributes_get(die, "DW_AT_decl_file") IN
    IF PyTruthy(attr_value) THEN resolve_file(attr_value.value, lineprogram) ELSE PyNone

desc_line(die) ==
    LET attr_value == attributes_get(die, "DW_AT_decl_line") IN
    IF PyTruthy(attr_value) THEN PyInt(attr_value.value) ELSE PyNone

desc_addr(die) ==
    LET attr_value == attributes_get(die, "DW_AT_low_pc") IN
    IF PyTruthy(attr_value) THEN PyInt(attr_value.value) ELSE PyNone

die_is_func(die) == die.tag = "DW_TAG_subprogram"

(***************************************************************************)
(* get_function_information.  The result is what the call does: `ret` is   *)
(* PyNone or the exception that leaves it, `out` the lines it printed,     *)
(* `lookups` the symbol table queries it made.                             *)
(***************************************************************************)
Outcome(r, o, l) == [ret |-> r, out |-> o, lookups |-> l]

\* any() in place of all()
any_resolved(name, file, line, addr) ==
    PyTruthy(name) \/ PyTruthy(file) \/ PyTruthy(line) \/ PyTruthy(addr)

\* all([name, file, line, addr]), line 193
all_resolved(name, file, line, addr) ==
    PyTruthy(name) /\ PyTruthy(file) /\ PyTruthy(line) /\ PyTruthy(addr)

\* path.parts of an object that may not be a path (None has no parts)
clean_relative_path_of(file) ==
    IF file.t = "path" THEN clean_relative_path(file) ELSE PyRaise("AttributeError")

\* lines 194..198: the branch taken when the four values pass the test
emit_descriptor(name, file, line, addr, tab, base_path) ==
    LET cleaned == clean_relative_path_of(file) IN
    IF IsRaise(cleaned) THEN Outcome(cleaned, <<>>, <<>>)
    ELSE LET path == IF PyTruthy(base_path)
                     THEN PyPath(PathJoin(PurePath(base_path.str), cleaned.parts))
                     ELSE cleaned
             query == [function |-> name, address |-> addr]
             idx == get_function_symtab_index(tab, name, addr)
         IN  IF IsRaise(idx) THEN Outcome(idx, <<>>, <<query>>)
             ELSE IF addr.t # "int" THEN Outcome(PyRaise("TypeError"), <<>>, <<query>>)
             ELSE Outcome(PyNone,
                          <<[kind |-> "function", name |-> name, file |-> path,
                             line |-> line, addr |-> addr, idx |-> idx]>>,
                          <<query>>)

\* the name filter applied after the file, line and address are decoded
get_function_information_filter_last(die, lineprogram, tab, base_path, filter_function_name) ==
    LET name == desc_name(die) IN
    IF ~die_is_func(die) THEN Outcome(PyRaise("AssertionError"), <<>>, <<>>)
    ELSE LET file == desc_file(die, lineprogram)
             line == desc_line(die)
             addr == desc_addr(die)
         IN  IF IsRaise(file) THEN Outcome(file, <<>>, <<>>)
             ELSE IF PyTruthy(filter_function_name) /\ ~PyEq(name, filter_function_name)
                  THEN Outcome(PyNone, <<>>, <<>>)
                  ELSE IF all_resolved(name, file, line, addr)
                       THEN emit_descriptor(name, file, line, addr, tab, base_path)
                       ELSE Outcome(PyNone, <<>>, <<>>)

get_function_information(die, lineprogram, tab, base_path, filter_function_name) ==
    LET name == desc_name(die) IN
    IF ~die_is_func(die) THEN Outcome(PyRaise("AssertionError"), <<>>, <<>>)
    ELSE IF PyTruthy(filter_function_name) /\ ~PyEq(name, filter_function_name)
    THEN Outcome(PyNone, <<>>, <<>>)
    ELSE LET file == desc_file(die, lineprogram)
             line == desc_line(die)
             addr == desc_addr(die)
         IN  IF IsRaise(file) THEN Outcome(file, <<>>, <<>>)
             ELSE IF all_resolved(name, file, line, addr)
                  THEN emit_descriptor(name, file, line, addr, tab, base_path)
                  ELSE Outcome(PyNone, <<>>, <<>>)

(***************************************************************************)
(* desc_cu, up to its loop: the unit's name, the unit filter, the header.  *)
(* `enter` says whether the loop over the unit's DIEs is entered.          *)
(***************************************************************************)
desc_cu_head(unit, filter_cu_name) ==
    LET name_attr == attributes_get(unit.top_DIE, "DW_AT_name") IN
    IF ~PyTruthy(name_attr)
    THEN [ret |-> PyRaise("AssertionError"), out |-> <<>>, enter |-> FALSE]
    ELSE LET name == clean_relative_path(PyPath(PurePath(decode(name_attr.value)))) IN
         IF IsRaise(name) THEN [ret |-> name, out |-> <<>>, enter |-> FALSE]
         ELSE IF PyTruthy(filter_cu_name)
                 /\ ~PyEq(name, PyPath(PurePath(filter_cu_name.str)))
              THEN [ret |-> PyNone, out |-> <<>>, enter |-> FALSE]
              ELSE [ret |-> PyNone,
                    out |-> <<[kind |-> "unit", offset |-> unit.cu_offset, name |-> name]>>,
                    enter |-> TRUE]

(***************************************************************************)
(* State.                                                                  *)
(***************************************************************************)
VARIABLES
    symtab,     \* the entries of the .symtab section of the global `elf`
    args,       \* the parsed arguments: base_path, cu, function
    pc,         \* where the program is
    cu,         \* the compilation unit desc_cu is walking, PyNone outside
    ncus,       \* compilation units iter_CUs() has yielded
    ndies,      \* DIEs iter_DIEs() has yielded
    stdout,     \* the lines printed so far
    lookups,    \* the symbol table queries made so far
    call,       \* the function entered last, with its arguments
    ret         \* what that call returned or raised

vars == <<symtab, args, pc, cu, ncus, ndies, stdout, lookups, call, ret>>

Pending == [t |-> "pending"]

(***************************************************************************)
(* Inputs.                                                                 *)
(***************************************************************************)
Symbol(n, a, k) == [name |-> n, st_value |-> a, type |-> k]
SymNames == {<<"main">>, <<"bar">>}
SymValues == {0, 1}
SymTypes == {"STT_FUNC", "STT_OBJECT"}
Symbols == {Symbol(n, a, k) : n \in SymNames, a \in SymValues, k \in SymTypes}
SymTabs == SeqUpTo(Symbols, MaxSyms)

\* the symbol tables of the whole-program runs
RunSymbols == {Symbol(<<"main">>, 1, "STT_FUNC"), Symbol(<<"main">>, 1, "STT_OBJECT")}
RunSymTabs == SeqUpTo(RunSymbols, MaxSyms)

FileEntry(n, d) == [name |-> n, dir_index |-> d]
FileNames == {<<"a.c">>, <<"..", "b.c">>}
DirNames == {<<"/", "proj">>, <<"..", "inc">>}
FileEntries == {FileEntry(n, d) : n \in FileNames, d \in 0..MaxDirs}
LineProgram(ver, f, d) == [version |-> ver, file_entry |-> f, include_directory |-> d]
Versions == {4, 5}
LinePrograms ==
    {LineProgram(ver, f, d) : ver \in Versions,
                              f \in SeqUpTo(FileEntries, MaxFiles),
                              d \in SeqUpTo(DirNames, MaxDirs)}

\* the line programs of the whole-program runs
RunLinePrograms ==
    {LineProgram(4, <<FileEntry(<<"a.c">>, 1), FileEntry(<<"b.c">>, 0)>>,
                    <<<<"/", "proj">>>>),
     LineProgram(5, <<FileEntry(<<"a.c">>, 0), FileEntry(<<"..", "..", "src", "a.c">>, 1)>>,
                    <<<<"/", "proj">>, <<"..">>>>)}

Opt(S) == {PyNone} \cup {AttributeValue(x) : x \in S}
DIE(tag, n, f, l, a) ==
    [tag |-> tag,
     attributes |-> [DW_AT_name |-> n, DW_AT_decl_file |-> f,
                     DW_AT_decl_line |-> l, DW_AT_low_pc |-> a]]
DieNames == {<<"main">>, <<"bar">>, <<InvalidByte>>}
DeclFiles == 0..(MaxFiles + 1)
DeclLines == {0, 10}
LowPcs == {0, 1}
FuncDIEs ==
    {DIE("DW_TAG_subprogram", n, f, l, a) :
        n \in Opt(DieNames), f \in Opt(DeclFiles), l \in Opt(DeclLines), a \in Opt(LowPcs)}
OtherDIEs ==
    {DIE("DW_TAG_variable", AttributeValue(<<"main">>), AttributeValue(1),
         AttributeValue(10), PyNone)}
DIEs == FuncDIEs \cup OtherDIEs

\* the DIEs of the whole-program runs: a function with the four attributes,
\* one filtered by name, one without an address, one whose file index is out
\* of range, and a DIE that is no function
RunDIEs ==
    {DIE("DW_TAG_subprogram", AttributeValue(<<"main">>), AttributeValue(1),
         AttributeValue(10), AttributeValue(1)),
     DIE("DW_TAG_subprogram", AttributeValue(<<"bar">>), AttributeValue(1),
         AttributeValue(10), AttributeValue(1)),
     DIE("DW_TAG_subprogram", AttributeValue(<<"main">>), AttributeValue(1),
         AttributeValue(10), PyNone),
     DIE("DW_TAG_subprogram", AttributeValue(<<"main">>), AttributeValue(MaxFiles + 1),
         AttributeValue(10), AttributeValue(1))} \cup OtherDIEs

UnitNames == {<<"a.c">>, <<"..", "a.c">>, <<"..">>}
TopDIEs == {DIE("DW_TAG_compile_unit", n, PyNone, PyNone, AttributeValue(0)) : n \in Opt(UnitNames)}
CompileUnit(off, top, lp) == [cu_offset |-> off, top_DIE |-> top, lineprogram |-> lp]

Args ==
    {[base_path |-> b, cu |-> c, function |-> f] :
        b \in {PyNone, PyStr(<<"/", "build">>)},
        c \in {PyNone, PyStr(<<"a.c">>)},
        f \in {PyNone, PyStr(<<"main">>)}}
NoArgs == [base_path |-> PyNone, cu |-> PyNone, function |-> PyNone]

(***************************************************************************)
(* The program: main, desc_cu and the functions under them.                *)
(***************************************************************************)
Init ==
    /\ symtab \in RunSymTabs
    /\ args \in Args
    /\ pc = "start"
    /\ cu = PyNone
    /\ ncus = 0
    /\ ndies = 0
    /\ stdout = <<>>
    /\ lookups = <<>>
    /\ call = [fn |-> "main"]
    /\ ret = Pending

\* lines 235..248: the file is opened; without DWARF info the program says so
\* and exits
main_open ==
    /\ pc = "start"
    /\ \E has_dwarf_info \in BOOLEAN :
          IF has_dwarf_info
          THEN pc' = "iter_CUs" /\ stdout' = stdout
          ELSE pc' = "exit" /\ stdout' = Append(stdout, [kind |-> "text", text |-> "No DWARF info found."])
    /\ UNCHANGED <<symtab, args, cu, ncus, ndies, lookups, call, ret>>

\* lines 250..251 and 208..217: the next unit is handed to desc_cu
main_next_cu ==
    /\ pc = "iter_CUs"
    /\ ncus < MaxCUs
    /\ \E top \in TopDIEs, lp \in RunLinePrograms :
          LET unit == CompileUnit(ncus, top, lp)
              head == desc_cu_head(unit, args.cu)
          IN  /\ call' = [fn |-> "desc_cu", cu |-> unit]
              /\ stdout' = stdout \o head.out
              /\ IF IsRaise(head.ret)
                 THEN pc' = "raised" /\ ret' = head.ret /\ cu' = cu
                 ELSE IF head.enter
                      THEN pc' = "iter_DIEs" /\ ret' = Pending /\ cu' = unit
                      ELSE pc' = "iter_CUs" /\ ret' = head.ret /\ cu' = cu
    /\ ncus' = ncus + 1
    /\ UNCHANGED <<symtab, args, ndies, lookups>>

\* lines 219..221: the next DIE of the unit
desc_cu_next_die ==
    /\ pc = "iter_DIEs"
    /\ ndies < MaxDIEs
    /\ \E die \in RunDIEs :
          IF die_is_func(die)
          THEN LET res == get_function_information(die, cu.lineprogram, symtab,
                                                   args.base_path, args.function)
               IN  /\ call' = [fn |-> "get_function_information", die |-> die]
                   /\ ret' = res.ret
                   /\ stdout' = stdout \o res.out
                   /\ lookups' = lookups \o res.lookups
                   /\ pc' = IF IsRaise(res.ret) THEN "raised" ELSE "iter_DIEs"
          ELSE /\ call' = [fn |-> "die_is_func", die |-> die]
               /\ ret' = Pending
               /\ UNCHANGED <<stdout, lookups, pc>>
    /\ ndies' = ndies + 1
    /\ UNCHANGED <<symtab, args, cu, ncus>>

\* line 219: the unit has no more DIEs, desc_cu returns
desc_cu_return ==
    /\ pc = "iter_DIEs"
    /\ pc' = "iter_CUs"
    /\ cu' = PyNone
    /\ call' = [fn |-> "desc_cu", cu |-> cu]
    /\ ret' = PyNone
    /\ UNCHANGED <<symtab, args, ncus, ndies, stdout, lookups>>

\* line 253: no more units
main_close ==
    /\ pc = "iter_CUs"
    /\ pc' = "exit"
    /\ UNCHANGED <<symtab, args, cu, ncus, ndies, stdout, lookups, call, ret>>

Next ==
    \/ main_open
    \/ main_next_cu
    \/ desc_cu_next_die
    \/ desc_cu_return
    \/ main_close

Spec == Init /\ [][Next]_vars

(***************************************************************************)
(* get_function_symtab_index on its own: any symbol table, any query.      *)
(***************************************************************************)
InitSym ==
    /\ symtab \in SymTabs
    /\ args = NoArgs
    /\ pc = "call"
    /\ cu = PyNone
    /\ ncus = 0
    /\ ndies = 0
    /\ stdout = <<>>
    /\ lookups = <<>>
    /\ call \in {[fn |-> "get_function_symtab_index", function |-> PyStr(n), address |-> PyInt(a)] :
                    n \in SymNames, a \in SymValues}
    /\ ret = Pending

call_get_function_symtab_index ==
    /\ pc = "call"
    /\ call.fn = "get_function_symtab_index"
    /\ ret' = get_function_symtab_index(symtab, call.function, call.address)
    /\ lookups' = Append(lookups, [function |-> call.function, address |-> call.address])
    /\ pc' = "return"
    /\ UNCHANGED <<symtab, args, cu, ncus, ndies, stdout, call>>

NextSym == call_get_function_symtab_index

SpecSym == InitSym /\ [][NextSym]_vars

(***************************************************************************)
(* desc_file on its own: any line program, any DW_AT_decl_file.            *)
(***************************************************************************)
UnitTop == DIE("DW_TAG_compile_unit", AttributeValue(<<"a.c">>), PyNone, PyNone, AttributeValue(0))

InitFile ==
    /\ symtab = <<>>
    /\ args = NoArgs
    /\ pc = "call"
    /\ cu \in {CompileUnit(0, UnitTop, lp) : lp \in LinePrograms}
    /\ ncus = 0
    /\ ndies = 0
    /\ stdout = <<>>
    /\ lookups = <<>>
    /\ call \in {[fn |-> "desc_file",
                  die |-> DIE("DW_TAG_subprogram", AttributeValue(<<"main">>), f,
                              AttributeValue(10), AttributeValue(1))] :
                    f \in Opt(DeclFiles)}
    /\ ret = Pending

call_desc_file ==
    /\ pc = "call"
    /\ call.fn = "desc_file"
    /\ ret' = desc_file(call.die, cu.lineprogram)
    /\ pc' = "return"
    /\ UNCHANGED <<symtab, args, cu, ncus, ndies, stdout, lookups, call>>

NextFile == call_desc_file

SpecFile == InitFile /\ [][NextFile]_vars

(***************************************************************************)
(* clean_relative_path on its own, applied once and then to its result.    *)
(***************************************************************************)
PartNames == {"..", "src", "a.c"}
Paths ==
    SeqUpTo(PartNames, MaxPathLen)
        \cup {<<"/">> \o r : r \in SeqUpTo(PartNames, MaxPathLen - 1)}

InitClean ==
    /\ symtab = <<>>
    /\ args = NoArgs
    /\ pc = "call"
    /\ cu = PyNone
    /\ ncus = 0
    /\ ndies = 0
    /\ stdout = <<>>
    /\ lookups = <<>>
    /\ call \in {[fn |-> "clean_relative_path", path |-> PyPath(parts)] : parts \in Paths}
    /\ ret = Pending

call_clean_relative_path ==
    /\ pc = "call"
    /\ call.fn = "clean_relative_path"
    /\ ret' = clean_relative_path(call.path)
    /\ pc' = "return"
    /\ UNCHANGED <<symtab, args, cu, ncus, ndies, stdout, lookups, call>>

\* the result of the first call is cleaned again
call_clean_relative_path_again ==
    /\ pc = "return"
    /\ call.fn = "clean_relative_path"
    /\ ~IsRaise(ret)
    /\ call' = [fn |-> "clean_relative_path", path |-> ret]
    /\ ret' = clean_relative_path(ret)
    /\ pc' = "return2"
    /\ UNCHANGED <<symtab, args, cu, ncus, ndies, stdout, lookups>>

NextClean == call_clean_relative_path \/ call_clean_relative_path_again

SpecClean == InitClean /\ [][NextClean]_vars

(***************************************************************************)
(* get_function_information on its own: any DIE, under each filter, base   *)
(* path and symbol table of the runs.                                      *)
(***************************************************************************)
InitBuild ==
    /\ symtab \in RunSymTabs
    /\ args \in Args
    /\ pc = "call"
    /\ cu \in {CompileUnit(0, UnitTop, lp) : lp \in RunLinePrograms}
    /\ ncus = 1
    /\ ndies = 0
    /\ stdout = <<>>
    /\ lookups = <<>>
    /\ call \in {[fn |-> "get_function_information", die |-> d] : d \in DIEs}
    /\ ret = Pending

call_get_function_information ==
    /\ pc = "call"
    /\ call.fn = "get_function_information"
    /\ LET res == get_function_information(call.die, cu.lineprogram, symtab,
                                           args.base_path, args.function)
       IN  /\ ret' = res.ret
           /\ stdout' = stdout \o res.out
           /\ lookups' = lookups \o res.lookups
    /\ ndies' = ndies + 1
    /\ pc' = "return"
    /\ UNCHANGED <<symtab, args, cu, ncus, call>>

NextBuild == call_get_function_information

SpecBuild == InitBuild /\ [][NextBuild]_vars

(***************************************************************************)
(* Properties.                                                             *)
(***************************************************************************)
\* The 0-based indices of the function-kind entries of tab whose name and
\* address equal the query.
MatchingIndices(tab, function, address) ==
    {i \in 0..(Len(tab) - 1) :
        /\ tab[i + 1].type = "STT_FUNC"
        /\ function.t = "str" /\ tab[i + 1].name = function.str
        /\ address.t = "int" /\ tab[i + 1].st_value = address.int}

SymReturned == pc = "return" /\ call.fn = "get_function_symtab_index"
SymMatches == MatchingIndices(symtab, call.function, call.address)

\* C1: whenever more than one function-kind entry has the query's name and
\* address, wherever the matches are in the table, the lookup fails: it
\* raises instead of returning one of the matching indices.
C1_AmbiguousLookupRaises ==
    (SymReturned /\ Cardinality(SymMatches) > 1) => IsRaise(ret)

\* C2: with at most one matching function-kind entry the lookup returns that
\* entry's index, or None when there is none; entries of another kind never
\* count, even with the query's name and address.
C2_UniqueLookupResult ==
    (SymReturned /\ Cardinality(SymMatches) <= 1) =>
        IF SymMatches = {} THEN PyEq(ret, PyNone)
        ELSE \E i \in SymMatches : PyEq(ret, PyInt(i))

\* a lookup that returned the one function entry while an entry of another
\* kind carries the same name and address
C2_Witness ==
    /\ SymReturned
    /\ Cardinality(SymMatches) = 1
    /\ ret.t = "int"
    /\ \E j \in 1..Len(symtab) :
          /\ symtab[j].type # "STT_FUNC"
          /\ symtab[j].name = call.function.str
          /\ symtab[j].st_value = call.address.int

FileReturned == pc = "return" /\ call.fn = "desc_file"
DeclFileAttr == call.die.attributes["DW_AT_decl_file"]
HeaderOf == cu.lineprogram
LegacyOffset == IF HeaderOf.version >= 5 THEN 0 ELSE -1
EffectiveFileIndex == LegacyOffset + DeclFileAttr.value
FileIndexInRange ==
    0 <= EffectiveFileIndex /\ EffectiveFileIndex < Len(HeaderOf.file_entry)
ReferencedEntry == HeaderOf.file_entry[EffectiveFileIndex + 1]
EffectiveDirIndex == LegacyOffset + ReferencedEntry.dir_index
DirIndexInRange ==
    0 <= EffectiveDirIndex /\ EffectiveDirIndex < Len(HeaderOf.include_directory)

\* C3: when the effective file index, or the effective directory index of
\* the entry it selects, is outside its table, desc_file raises and returns
\* no path; a negative effective index does not select an entry from the end.
C3_OutOfRangeRaises ==
    (FileReturned /\ DeclFileAttr # PyNone
        /\ (~FileIndexInRange \/ ~DirIndexInRange)) => IsRaise(ret)

\* a version 4 program with file entries and a DW_AT_decl_file of 0: the
\* effective index is -1
C3_Witness ==
    /\ FileReturned
    /\ DeclFileAttr # PyNone
    /\ HeaderOf.version < 5
    /\ DeclFileAttr.value = 0
    /\ Len(HeaderOf.file_entry) > 0
    /\ IsRaise(ret)

\* what DWARF declares valid: version 5 tables are 0-based; before version
\* 5 file numbers start at 1 and directory 0 is the compilation directory,
\* directories 1..n are the include_directory entries
DeclaredFileRef ==
    IF HeaderOf.version >= 5
    THEN 0 <= DeclFileAttr.value /\ DeclFileAttr.value < Len(HeaderOf.file_entry)
    ELSE 1 <= DeclFileAttr.value /\ DeclFileAttr.value <= Len(HeaderOf.file_entry)
DeclaredDirRef ==
    IF HeaderOf.version >= 5
    THEN 0 <= ReferencedEntry.dir_index
         /\ ReferencedEntry.dir_index < Len(HeaderOf.include_directory)
    ELSE 0 <= ReferencedEntry.dir_index
         /\ ReferencedEntry.dir_index <= Len(HeaderOf.include_directory)

\* C4: for every file index within the line program's declared bounds,
\* desc_file returns a path and does not raise, for version >= 5 and for
\* version < 5 programs, also when a pre-v5 file entry has dir_index 0; the
\* path is the selected entry's directory joined with its file name.
C4_InRangeReturnsPath ==
    (FileReturned /\ DeclFileAttr # PyNone /\ DeclaredFileRef /\ DeclaredDirRef) =>
        /\ ret.t = "path"
        /\ DirIndexInRange =>
              ret.parts = PathJoin(
                  PurePath(decode(HeaderOf.include_directory[EffectiveDirIndex + 1])),
                  PurePath(decode(ReferencedEntry.name)))

\* the parts of a path after its leading run of ".." parts
RECURSIVE StripLeadingParents(_)
StripLeadingParents(parts) ==
    IF parts # <<>> /\ parts[1] = ".." THEN StripLeadingParents(Tail(parts)) ELSE parts

\* C5: cleaning is idempotent on every path: the first call returns a path,
\* and cleaning that path returns it unchanged.
C5_CleanIdempotent ==
    /\ (pc = "return" /\ call.fn = "clean_relative_path") => ret.t = "path"
    /\ (pc = "return2" /\ call.fn = "clean_relative_path") => PyEq(ret, call.path)

\* C9: for every finite path clean_relative_path returns (it does not run
\* out of stack) the remainder after the leading run of ".." parts, which is
\* empty for the empty path and for a path of ".." parts only.
C9_CleanReturnsRemainder ==
    (pc = "return" /\ call.fn = "clean_relative_path") =>
        PyEq(ret, PyPath(StripLeadingParents(call.path.parts)))

BuildReturned == pc = "return" /\ call.fn = "get_function_information"
FourAttrs == {"DW_AT_name", "DW_AT_decl_file", "DW_AT_decl_line", "DW_AT_low_pc"}
IsSubprogram == call.die.tag = "DW_TAG_subprogram"
LacksAttr == \E a \in FourAttrs : call.die.attributes[a] = PyNone
FilterActive == args.function.t = "str" /\ args.function.str # <<>>
NameAttr == call.die.attributes["DW_AT_name"]
\* the name without the bytes that are not UTF-8
DecodedName == SelectSeq(NameAttr.value, LAMBDA c : c # "\\xff")
NameEqualsFilter == NameAttr # PyNone /\ DecodedName = args.function.str

\* C6: for a function DIE that lacks one of DW_AT_name, DW_AT_decl_file,
\* DW_AT_decl_line, DW_AT_low_pc no descriptor is printed and the symbol
\* table is not searched.
C6_NoDescriptorWithoutAllFour ==
    (BuildReturned /\ IsSubprogram /\ LacksAttr) => (stdout = <<>> /\ lookups = <<>>)

\* no filter, a name, a file and a line but no address: the call returned
\* without printing
C6_Witness ==
    /\ BuildReturned /\ IsSubprogram
    /\ ~FilterActive
    /\ NameAttr = AttributeValue(<<"main">>)
    /\ call.die.attributes["DW_AT_decl_file"] = AttributeValue(1)
    /\ call.die.attributes["DW_AT_decl_line"] = AttributeValue(10)
    /\ call.die.attributes["DW_AT_low_pc"] = PyNone
    /\ PyEq(ret, PyNone)
    /\ stdout = <<>>

\* C7: with a function-name filter active and a decoded name that is not
\* equal to it (or no name), the call returns normally with no descriptor and
\* no lookup, whatever the file index and the symbol table are.
C7_FilteredOutIsSilent ==
    (BuildReturned /\ IsSubprogram /\ FilterActive /\ ~NameEqualsFilter) =>
        (PyEq(ret, PyNone) /\ stdout = <<>> /\ lookups = <<>>)

\* a filtered-out DIE whose file index is out of range, in a binary whose
\* symbol table holds the filter's name twice
C7_Witness ==
    /\ BuildReturned /\ IsSubprogram /\ FilterActive /\ ~NameEqualsFilter
    /\ NameAttr # PyNone
    /\ call.die.attributes["DW_AT_decl_file"] = AttributeValue(MaxFiles + 1)
    /\ call.die.attributes["DW_AT_low_pc"] = AttributeValue(1)
    /\ Cardinality(MatchingIndices(symtab, args.function, PyInt(1))) > 1
    /\ PyEq(ret, PyNone)

HasAllFour == ~LacksAttr
PassesFilter == ~FilterActive \/ NameEqualsFilter
BuildMatches ==
    MatchingIndices(symtab, PyStr(DecodedName),
                    PyInt(call.die.attributes["DW_AT_low_pc"].value))

\* C10: a function DIE that passes the filter and has the four attributes,
\* with file and directory indices in range, gives exactly one descriptor
\* whatever the values are (address 0, line 0, empty name), and its index
\* is None when no function symbol matches.  (Symbol tables with two
\* matches are left out: there the lookup is to fail.)
C10_OneDescriptorPerCompleteEntry ==
    (BuildReturned /\ IsSubprogram /\ HasAllFour /\ PassesFilter
        /\ FileIndexInRange /\ DirIndexInRange
        /\ Cardinality(BuildMatches) <= 1) =>
        /\ Len(stdout) = 1
        /\ stdout[1].kind = "function"
        /\ BuildMatches = {} => PyEq(stdout[1].idx, PyNone)

IsPrefix(a, b) == Len(a) <= Len(b) /\ SubSeq(b, 1, Len(a)) = a

\* C8: lines printed stay printed, in the order of the walk; a symbol lookup
\* with more than one match, like every fatal condition, ends the run with
\* the exception and prints nothing for that entry; after the exception
\* nothing more is printed.
C8_FatalEndsRun ==
    [][/\ IsPrefix(stdout, stdout')
       /\ pc = "raised" => stdout' = stdout
       /\ (Len(lookups') > Len(lookups)
            /\ Cardinality(MatchingIndices(symtab, lookups'[Len(lookups')].function,
                                           lookups'[Len(lookups')].address)) > 1)
          => (pc' = "raised" /\ IsRaise(ret') /\ stdout' = stdout)]_vars

=============================================================================
